---- MODULE Spec2Model ----
(***************************************************************************)
(* Model of the prefix-code compressor: HuffmanCoder and ShannonFanoCoder  *)
(* (src/src/algorithms.py), the bit packing of main.py / read_bin.py /     *)
(* file_handler.py, and the quality metrics of src/src/error_analysis.py.  *)
(*                                                                         *)
(* Bytes are integers 0..255, bit strings are sequences over {0,1}.  A     *)
(* Python dict is a sequence of <<key, value>> pairs in insertion order.   *)
(* Node objects live in an arena (a sequence of records); a reference is   *)
(* an index into the arena and 0 is None.                                  *)
(***************************************************************************)
EXTENDS Integers, Sequences, FiniteSets, TLC

\* ------------------------------------------------------------------ bounds
MaxLen == 4
NumSymbols == 4
MaxFlips == 1

\* ------------------------------------------------------- input enumeration
SymbolPool == <<65, 66, 0, 255, 90, 1, 2, 3>>

Alphabet == {SymbolPool[i] : i \in 1..NumSymbols}

SeqsUpTo(S, n) == UNION {[1..k -> S] : k \in 0..n}

ScenarioAAB == <<65, 65, 65, 65, 65, 65, 65, 65, 66>>

ScenarioZ == <<90, 90, 90, 90, 90>>

Inputs == SeqsUpTo(Alphabet, MaxLen) \cup {ScenarioAAB, ScenarioZ}

\* ------------------------------------------------------------ Python dicts
DictKeys(d) == {d[i][1] : i \in 1..Len(d)}

DictGet(d, k) == d[CHOOSE i \in 1..Len(d) : d[i][1] = k][2]

\* "".join(codes[byte] for byte in data)
RECURSIVE JoinCodes(_, _)
JoinCodes(codes, data) ==
    IF data = <<>> THEN <<>>
    ELSE DictGet(codes, Head(data)) \o JoinCodes(codes, Tail(data))

\* counter[b] += 1 for a key already present
RECURSIVE CountUp(_, _)
CountUp(items, b) ==
    IF items = <<>> THEN <<>>
    ELSE IF Head(items)[1] = b
         THEN <<<<b, Head(items)[2] + 1>>>> \o Tail(items)
         ELSE <<Head(items)>> \o CountUp(Tail(items), b)

\* Counter(data).items(): one <<symbol, count>> per distinct byte, in order of
\* first occurrence.
RECURSIVE CounterItems(_, _)
CounterItems(data, acc) ==
    IF data = <<>> THEN acc
    ELSE LET b == Head(data) IN
         IF b \in DictKeys(acc)
         THEN CounterItems(Tail(data), CountUp(acc, b))
         ELSE CounterItems(Tail(data), Append(acc, <<b, 1>>))

Counter(data) == CounterItems(data, <<>>)

\* ------------------------------------------------------------------- Node
NoneChar == -1

NoneRef == 0

Node(char, freq) == [char |-> char, freq |-> freq, left |-> NoneRef, right |-> NoneRef]

\* __lt__ comparing freq the wrong way round
NodeLtGreaterFreq(nodes, a, b) ==
    IF nodes[a].freq = nodes[b].freq
    THEN IF nodes[a].char # NoneChar /\ nodes[b].char # NoneChar
         THEN nodes[a].char < nodes[b].char
         ELSE IF nodes[a].char # NoneChar THEN TRUE
         ELSE FALSE
    ELSE nodes[a].freq > nodes[b].freq

\* __lt__ without the preference for leaves at equal freq
NodeLtNoLeafPref(nodes, a, b) ==
    IF nodes[a].freq = nodes[b].freq
    THEN IF nodes[a].char # NoneChar /\ nodes[b].char # NoneChar
         THEN nodes[a].char < nodes[b].char
         ELSE FALSE
    ELSE nodes[a].freq < nodes[b].freq

\* Node.__lt__ on the nodes a and b of the arena
NodeLt(nodes, a, b) ==
    IF nodes[a].freq = nodes[b].freq
    THEN IF nodes[a].char # NoneChar /\ nodes[b].char # NoneChar
         THEN nodes[a].char < nodes[b].char
         ELSE IF nodes[a].char # NoneChar THEN TRUE
         ELSE FALSE
    ELSE nodes[a].freq < nodes[b].freq

\* ------------------------------------------------------------------ heapq
\* heap is a sequence of node references; positions are 0-based as in heapq.
RECURSIVE SiftDown(_, _, _, _, _)
SiftDown(nodes, heap, startpos, pos, newitem) ==
    IF pos > startpos
    THEN LET parentpos == (pos - 1) \div 2
             parent == heap[parentpos + 1]
         IN IF NodeLt(nodes, newitem, parent)
            THEN SiftDown(nodes, [heap EXCEPT ![pos + 1] = parent],
                          startpos, parentpos, newitem)
            ELSE [heap EXCEPT ![pos + 1] = newitem]
    ELSE [heap EXCEPT ![pos + 1] = newitem]

RECURSIVE SiftUpLoop(_, _, _, _, _)
SiftUpLoop(nodes, heap, startpos, pos, newitem) ==
    LET endpos == Len(heap)
        childpos == 2 * pos + 1
        rightpos == childpos + 1
    IN IF childpos < endpos
       THEN LET c == IF rightpos < endpos
                        /\ ~NodeLt(nodes, heap[childpos + 1], heap[rightpos + 1])
                     THEN rightpos ELSE childpos
            IN SiftUpLoop(nodes, [heap EXCEPT ![pos + 1] = heap[c + 1]],
                          startpos, c, newitem)
       ELSE SiftDown(nodes, [heap EXCEPT ![pos + 1] = newitem],
                     startpos, pos, newitem)

SiftUp(nodes, heap, pos) == SiftUpLoop(nodes, heap, pos, pos, heap[pos + 1])

\* heapq.heapify: for i in reversed(range(n // 2)): _siftup(x, i)
RECURSIVE HeapifyFrom(_, _, _)
HeapifyFrom(nodes, heap, i) ==
    IF i < 0 THEN heap
    ELSE HeapifyFrom(nodes, SiftUp(nodes, heap, i), i - 1)

Heapify(nodes, heap) == HeapifyFrom(nodes, heap, (Len(heap) \div 2) - 1)

\* heapq.heappop: the item returned and the heap left behind
HeapPop(nodes, heap) ==
    LET lastelt == heap[Len(heap)]
        rest == SubSeq(heap, 1, Len(heap) - 1)
    IN IF rest # <<>>
       THEN [item |-> rest[1],
             heap |-> SiftUp(nodes, [rest EXCEPT ![1] = lastelt], 0)]
       ELSE [item |-> lastelt, heap |-> rest]

\* heapq.heappush
HeapPush(nodes, heap, item) ==
    SiftDown(nodes, Append(heap, item), 0, Len(heap), item)

\* ----------------------------------------------------------- HuffmanCoder
\* pq = [Node(char, count) for char, count in freq.items()]
RECURSIVE LeafNodes(_)
LeafNodes(items) ==
    IF items = <<>> THEN <<>>
    ELSE <<Node(Head(items)[1], Head(items)[2])>> \o LeafNodes(Tail(items))

\* the references <<1, ..., n>> to the n nodes of that list, in list order
RECURSIVE NodeRefs(_)
NodeRefs(n) == IF n = 0 THEN <<>> ELSE Append(NodeRefs(n - 1), n)

\* while len(pq) > 1: pop left, pop right, push Node(None, left.freq + right.freq)
RECURSIVE BuildTree(_, _)
BuildTree(nodes, pq) ==
    IF Len(pq) > 1
    THEN LET p1 == HeapPop(nodes, pq)
             p2 == HeapPop(nodes, p1.heap)
             lnode == p1.item
             rnode == p2.item
             merged == [char |-> NoneChar,
                        freq |-> nodes[lnode].freq + nodes[rnode].freq,
                        left |-> lnode, right |-> rnode]
             nodes2 == Append(nodes, merged)
         IN BuildTree(nodes2, HeapPush(nodes2, p2.heap, Len(nodes2)))
    ELSE [nodes |-> nodes, root |-> pq[1]]

\* the heappop calls of that loop in order: the queue each one was applied to
\* and the node it returned
RECURSIVE PopTrace(_, _)
PopTrace(nodes, pq) ==
    IF Len(pq) > 1
    THEN LET p1 == HeapPop(nodes, pq)
             p2 == HeapPop(nodes, p1.heap)
             merged == [char |-> NoneChar,
                        freq |-> nodes[p1.item].freq + nodes[p2.item].freq,
                        left |-> p1.item, right |-> p2.item]
             nodes2 == Append(nodes, merged)
         IN << [queue |-> pq, item |-> p1.item],
               [queue |-> p1.heap, item |-> p2.item] >>
            \o PopTrace(nodes2, HeapPush(nodes2, p2.heap, Len(nodes2)))
    ELSE <<>>

\* the pops made by HuffmanCoder.encode(data)
HuffmanPops(data) ==
    IF data = <<>> THEN <<>>
    ELSE LET leaves == LeafNodes(Counter(data))
         IN PopTrace(leaves, Heapify(leaves, NodeRefs(Len(leaves))))

\* _generate_codes appending "0" on the right descent as well
RECURSIVE GenerateCodesSameBit(_, _, _)
GenerateCodesSameBit(nodes, node, current_code) ==
    IF node = NoneRef THEN <<>>
    ELSE IF nodes[node].char # NoneChar
         THEN << <<nodes[node].char, current_code>> >>
         ELSE GenerateCodesSameBit(nodes, nodes[node].left, Append(current_code, 0))
              \o GenerateCodesSameBit(nodes, nodes[node].right, Append(current_code, 0))

\* HuffmanCoder._generate_codes: the entries added to codes, in order
RECURSIVE GenerateCodes(_, _, _)
GenerateCodes(nodes, node, current_code) ==
    IF node = NoneRef THEN <<>>
    ELSE IF nodes[node].char # NoneChar
         THEN << <<nodes[node].char, current_code>> >>
         ELSE GenerateCodes(nodes, nodes[node].left, Append(current_code, 0))
              \o GenerateCodes(nodes, nodes[node].right, Append(current_code, 1))

\* encode returning an empty root node instead of None for empty data
HuffmanEncodeEmptyNode(data) ==
    IF data = <<>>
    THEN [bits |-> <<>>, codes |-> <<>>, nodes |-> <<Node(NoneChar, 0)>>, root |-> 1]
    ELSE LET leaves == LeafNodes(Counter(data))
             pq == Heapify(leaves, NodeRefs(Len(leaves)))
             t == BuildTree(leaves, pq)
             codes == GenerateCodes(t.nodes, t.root, <<>>)
         IN [bits |-> JoinCodes(codes, data), codes |-> codes,
             nodes |-> t.nodes, root |-> t.root]

\* HuffmanCoder.encode: (encoded_bits, codes, root)
HuffmanEncode(data) ==
    IF data = <<>>
    THEN [bits |-> <<>>, codes |-> <<>>, nodes |-> <<>>, root |-> NoneRef]
    ELSE LET leaves == LeafNodes(Counter(data))
             pq == Heapify(leaves, NodeRefs(Len(leaves)))
             t == BuildTree(leaves, pq)
             codes == GenerateCodes(t.nodes, t.root, <<>>)
         IN [bits |-> JoinCodes(codes, data), codes |-> codes,
             nodes |-> t.nodes, root |-> t.root]

\* The tree-walk loop shared by HuffmanCoder.decode and ShannonFanoCoder.decode.
\* Reading .char of None raises AttributeError; the local bytearray is then
\* unreachable for the caller, it is kept here in "partial" for reference.
RECURSIVE DecodeWalkNoReset(_, _, _, _, _)
DecodeWalkNoReset(nodes, root, bits, current_node, decoded_bytes) ==
    IF bits = <<>> THEN [status |-> "ok", out |-> decoded_bytes, partial |-> decoded_bytes]
    ELSE LET next == IF Head(bits) = 0 THEN nodes[current_node].left
                     ELSE nodes[current_node].right
         IN IF next = NoneRef
            THEN [status |-> "AttributeError", out |-> <<>>, partial |-> decoded_bytes]
            ELSE IF nodes[next].char # NoneChar
                 THEN DecodeWalkNoReset(nodes, root, Tail(bits), next,
                                        Append(decoded_bytes, nodes[next].char))
                 ELSE DecodeWalkNoReset(nodes, root, Tail(bits), next, decoded_bytes)

RECURSIVE DecodeWalk(_, _, _, _, _)
DecodeWalk(nodes, root, bits, current_node, decoded_bytes) ==
    IF bits = <<>> THEN [status |-> "ok", out |-> decoded_bytes, partial |-> decoded_bytes]
    ELSE LET next == IF Head(bits) = 0 THEN nodes[current_node].left
                     ELSE nodes[current_node].right
         IN IF next = NoneRef
            THEN [status |-> "AttributeError", out |-> <<>>, partial |-> decoded_bytes]
            ELSE IF nodes[next].char # NoneChar
                 THEN DecodeWalk(nodes, root, Tail(bits), root,
                                 Append(decoded_bytes, nodes[next].char))
                 ELSE DecodeWalk(nodes, root, Tail(bits), next, decoded_bytes)

\* HuffmanCoder.decode
HuffmanDecode(encoded_bits, nodes, root) ==
    IF encoded_bits = <<>> \/ root = NoneRef
    THEN [status |-> "ok", out |-> <<>>, partial |-> <<>>]
    ELSE DecodeWalk(nodes, root, encoded_bits, root, <<>>)

\* ------------------------------------------------------- ShannonFanoCoder
\* sorted(freq.items(), key=lambda item: item[1], reverse=True): stable, so
\* equal counts keep their first-occurrence order.
RECURSIVE InsertDesc(_, _)
InsertDesc(sorted, item) ==
    IF sorted = <<>> THEN <<item>>
    ELSE IF Head(sorted)[2] >= item[2]
         THEN <<Head(sorted)>> \o InsertDesc(Tail(sorted), item)
         ELSE <<item>> \o sorted

RECURSIVE SortDesc(_, _)
SortDesc(items, acc) ==
    IF items = <<>> THEN acc
    ELSE SortDesc(Tail(items), InsertDesc(acc, Head(items)))

RECURSIVE SumFreq(_)
SumFreq(symbols) ==
    IF symbols = <<>> THEN 0 ELSE Head(symbols)[2] + SumFreq(Tail(symbols))

Abs(x) == IF x < 0 THEN -x ELSE x

\* float('inf')
Infinity == -1

\* the scan taking a new split index on diff <= min_diff as well
RECURSIVE ScanSplitLastMin(_, _, _, _, _, _)
ScanSplitLastMin(symbols, total_sum, i, running_sum, split_idx, min_diff) ==
    IF i >= Len(symbols) - 1 THEN split_idx
    ELSE LET rs == running_sum + symbols[i + 1][2]
             diff == Abs(rs - (total_sum - rs))
         IN IF min_diff = Infinity \/ diff <= min_diff
            THEN ScanSplitLastMin(symbols, total_sum, i + 1, rs, i, diff)
            ELSE ScanSplitLastMin(symbols, total_sum, i + 1, rs, split_idx, min_diff)

\* the scan "for i in range(len(symbols) - 1)" of _recursive_split; i is 0-based
RECURSIVE ScanSplit(_, _, _, _, _, _)
ScanSplit(symbols, total_sum, i, running_sum, split_idx, min_diff) ==
    IF i >= Len(symbols) - 1 THEN split_idx
    ELSE LET rs == running_sum + symbols[i + 1][2]
             diff == Abs(rs - (total_sum - rs))
         IN IF min_diff = Infinity \/ diff < min_diff
            THEN ScanSplit(symbols, total_sum, i + 1, rs, i, diff)
            ELSE ScanSplit(symbols, total_sum, i + 1, rs, split_idx, min_diff)

SplitIdx(symbols) == ScanSplit(symbols, SumFreq(symbols), 0, 0, 0, Infinity)

\* _recursive_split storing current_code as it is, without the "0" default
RECURSIVE RecursiveSplitNoDefault(_, _)
RecursiveSplitNoDefault(symbols, current_code) ==
    IF symbols = <<>> THEN <<>>
    ELSE IF Len(symbols) = 1
         THEN << <<symbols[1][1], current_code>> >>
         ELSE LET split_idx == SplitIdx(symbols)
                  left_part == SubSeq(symbols, 1, split_idx + 1)
                  right_part == SubSeq(symbols, split_idx + 2, Len(symbols))
              IN RecursiveSplitNoDefault(left_part, Append(current_code, 0))
                 \o RecursiveSplitNoDefault(right_part, Append(current_code, 1))

\* ShannonFanoCoder._recursive_split: the entries added to codes, in order
RECURSIVE RecursiveSplit(_, _)
RecursiveSplit(symbols, current_code) ==
    IF symbols = <<>> THEN <<>>
    ELSE IF Len(symbols) = 1
         THEN << <<symbols[1][1], IF current_code # <<>> THEN current_code ELSE <<0>> >> >>
         ELSE LET split_idx == SplitIdx(symbols)
                  left_part == SubSeq(symbols, 1, split_idx + 1)
                  right_part == SubSeq(symbols, split_idx + 2, Len(symbols))
              IN RecursiveSplit(left_part, Append(current_code, 0))
                 \o RecursiveSplit(right_part, Append(current_code, 1))

\* the calls of _recursive_split on two or more symbols, in call order: the
\* symbols list, the code prefix and the split index chosen
RECURSIVE SplitTrace(_, _)
SplitTrace(symbols, current_code) ==
    IF Len(symbols) < 2 THEN <<>>
    ELSE LET split_idx == SplitIdx(symbols)
             left_part == SubSeq(symbols, 1, split_idx + 1)
             right_part == SubSeq(symbols, split_idx + 2, Len(symbols))
         IN << [symbols |-> symbols, current_code |-> current_code,
                split_idx |-> split_idx] >>
            \o SplitTrace(left_part, Append(current_code, 0))
            \o SplitTrace(right_part, Append(current_code, 1))

\* the splits made by ShannonFanoCoder.encode(data)
ShannonSplits(data) ==
    IF data = <<>> THEN <<>>
    ELSE SplitTrace(SortDesc(Counter(data), <<>>), <<>>)

\* ShannonFanoCoder.encode: (encoded_bits, codes, codes)
ShannonEncode(data) ==
    IF data = <<>> THEN [bits |-> <<>>, codes |-> <<>>]
    ELSE LET sorted_symbols == SortDesc(Counter(data), <<>>)
             codes == RecursiveSplit(sorted_symbols, <<>>)
         IN [bits |-> JoinCodes(codes, data), codes |-> codes]

\* the inner loop of the tree rebuild: walk code from curr, creating nodes
RECURSIVE InsertCode(_, _, _, _)
InsertCode(nodes, curr, code, symbol) ==
    IF code = <<>> THEN [nodes EXCEPT ![curr].char = symbol]
    ELSE IF Head(code) = 0
         THEN IF nodes[curr].left = NoneRef
              THEN InsertCode([Append(nodes, Node(NoneChar, 0))
                                 EXCEPT ![curr].left = Len(nodes) + 1],
                              Len(nodes) + 1, Tail(code), symbol)
              ELSE InsertCode(nodes, nodes[curr].left, Tail(code), symbol)
         ELSE IF nodes[curr].right = NoneRef
              THEN InsertCode([Append(nodes, Node(NoneChar, 0))
                                 EXCEPT ![curr].right = Len(nodes) + 1],
                              Len(nodes) + 1, Tail(code), symbol)
              ELSE InsertCode(nodes, nodes[curr].right, Tail(code), symbol)

\* root = Node(None, 0); for symbol, code in codes.items(): ...
RECURSIVE RebuildFrom(_, _)
RebuildFrom(nodes, items) ==
    IF items = <<>> THEN nodes
    ELSE RebuildFrom(InsertCode(nodes, 1, Head(items)[2], Head(items)[1]), Tail(items))

RebuildTree(codes) == RebuildFrom(<<Node(NoneChar, 0)>>, codes)

\* ShannonFanoCoder.decode
ShannonDecode(encoded_bits, codes) ==
    LET nodes == RebuildTree(codes)
    IN IF encoded_bits = <<>>
       THEN [status |-> "ok", out |-> <<>>, partial |-> <<>>]
       ELSE DecodeWalk(nodes, 1, encoded_bits, 1, <<>>)

\* ------------------------------------------------------------ bit packing
Zeros(n) == [i \in 1..n |-> 0]

\* int(bit_string, 2)
RECURSIVE BitsToInt(_, _)
BitsToInt(bits, acc) ==
    IF bits = <<>> THEN acc ELSE BitsToInt(Tail(bits), 2 * acc + Head(bits))

RECURSIVE Pow(_, _)
Pow(b, e) == IF e = 0 THEN 1 ELSE b * Pow(b, e - 1)

\* n.to_bytes(k, byteorder='big')
ToBytesBig(n, k) == [i \in 1..k |-> (n \div Pow(256, k - i)) % 256]

\* format(byte, '08b')
ByteToBits(byte) == [i \in 1..8 |-> (byte \div Pow(2, 8 - i)) % 2]

RECURSIVE BytesToBits(_)
BytesToBits(bytes) ==
    IF bytes = <<>> THEN <<>> ELSE ByteToBits(Head(bytes)) \o BytesToBits(Tail(bytes))

\* s[:-n] for n > 0
DropLast(s, n) == SubSeq(s, 1, Len(s) - n)

\* the padding count without the reset of 8 to 0
MainPaddingNoReset(encoded_bits) == 8 - (Len(encoded_bits) % 8)

\* the padding count taken as the remainder itself
MainPaddingModOnly(encoded_bits) == Len(encoded_bits) % 8

\* main.py step 4: padding count, padded bit string and packed bytes
MainPadding(encoded_bits) ==
    LET extra == 8 - (Len(encoded_bits) % 8)
    IN IF extra = 8 THEN 0 ELSE extra

MainPack(encoded_bits) ==
    LET extra == MainPadding(encoded_bits)
        padded == encoded_bits \o Zeros(extra)
    IN [extra_padding |-> extra,
        padded_bits |-> padded,
        byte_array |-> IF Len(padded) > 0
                       THEN ToBytesBig(BitsToInt(padded, 0), Len(padded) \div 8)
                       ELSE <<>>]

\* main.py: padded_bits[:-extra_padding] if extra_padding > 0 else padded_bits
StripPadding(bits, padding) == IF padding > 0 THEN DropLast(bits, padding) ELSE bits

\* read_bin.py steps A and B; with no payload the function returns before any
\* bit string is built, so no bits are handed on.
ReadBinUnpack(padding_bits, compressed_data) ==
    IF Len(compressed_data) = 0 THEN <<>>
    ELSE StripPadding(BytesToBits(compressed_data), padding_bits)

\* apply_noise with the draws that flip exactly the positions in flips
FlipBits(bits, flips) == [i \in 1..Len(bits) |-> IF i \in flips THEN 1 - bits[i] ELSE bits[i]]

\* --------------------------------------------------------------- the codec
VARIABLES pc, algo, data, encoded_bits, codes, nodes, root, third, pops, splits,
          extra_padding, padded_bits, byte_array, bits_to_decode,
          raised, decoding_status, decoded_data, partial, rb_status, rb_decoded

\* BitWriter / BitReader and the packer on an arbitrary bit stream
VARIABLES bpc, stream, written, buffer, buffer_len, file, packed, unpacked

\* the metrics of error_analysis.py
VARIABLES mpc, original, decoded, mse, ser

\* calculate_ber of error_analysis.py
VARIABLES kpc, original_bits, noisy_bits, ber

codecVars == <<pc, algo, data, encoded_bits, codes, nodes, root, third, pops, splits,
               extra_padding, padded_bits, byte_array, bits_to_decode,
               raised, decoding_status, decoded_data, partial, rb_status, rb_decoded>>

bitVars == <<bpc, stream, written, buffer, buffer_len, file, packed, unpacked>>

berVars == <<kpc, original_bits, noisy_bits, ber>>

metricVars == <<mpc, original, decoded, mse, ser, berVars>>

vars == <<codecVars, bitVars, metricVars>>

encodeVars == <<encoded_bits, codes, nodes, root, third, pops, splits>>

packVars == <<extra_padding, padded_bits, byte_array>>

decodeVars == <<raised, decoding_status, decoded_data, partial, rb_status, rb_decoded>>

CodecInit(inputs) ==
    /\ pc = "start"
    /\ algo = "unset"
    /\ data \in inputs
    /\ encoded_bits = <<>>
    /\ codes = <<>>
    /\ nodes = <<>>
    /\ root = NoneRef
    /\ third = "unset"
    /\ pops = <<>>
    /\ splits = <<>>
    /\ extra_padding = 0
    /\ padded_bits = <<>>
    /\ byte_array = <<>>
    /\ bits_to_decode = <<>>
    /\ raised = "none"
    /\ decoding_status = "Success"
    /\ decoded_data = <<>>
    /\ partial = <<>>
    /\ rb_status = "none"
    /\ rb_decoded = <<>>

\* coder = HuffmanCoder(); coder.encode(data)
EncodeHuffman ==
    /\ pc = "start"
    /\ LET r == HuffmanEncode(data)
       IN /\ encoded_bits' = r.bits
          /\ codes' = r.codes
          /\ nodes' = r.nodes
          /\ root' = r.root
          /\ third' = IF r.root = NoneRef THEN "None" ELSE "Node"
    /\ pops' = HuffmanPops(data)
    /\ splits' = <<>>
    /\ algo' = "huffman"
    /\ pc' = "encoded"
    /\ UNCHANGED <<data, packVars, bits_to_decode, decodeVars, bitVars, metricVars>>

\* coder = ShannonFanoCoder(); coder.encode(data)
EncodeShannon ==
    /\ pc = "start"
    /\ LET r == ShannonEncode(data)
       IN /\ encoded_bits' = r.bits
          /\ codes' = r.codes
    /\ nodes' = <<>>
    /\ root' = NoneRef
    /\ third' = "dict"
    /\ pops' = <<>>
    /\ splits' = ShannonSplits(data)
    /\ algo' = "shannon"
    /\ pc' = "encoded"
    /\ UNCHANGED <<data, packVars, bits_to_decode, decodeVars, bitVars, metricVars>>

\* coder.decode(bits, tree_or_map) for the coder that encoded
CoderDecode(bits) ==
    IF algo = "huffman" THEN HuffmanDecode(bits, nodes, root)
    ELSE ShannonDecode(bits, codes)

\* decode(encode(data)): the third value of encode goes straight to decode
DecodeDirect ==
    /\ pc = "encoded"
    /\ LET r == CoderDecode(encoded_bits)
       IN /\ raised' = IF r.status = "ok" THEN "none" ELSE r.status
          /\ decoded_data' = r.out
          /\ partial' = r.partial
    /\ bits_to_decode' = encoded_bits
    /\ pc' = "decoded"
    /\ UNCHANGED <<rb_status, rb_decoded, algo, data, encodeVars, packVars, decoding_status, bitVars, metricVars>>

\* main.py step 4, reached only for a non-empty file
Pack ==
    /\ pc = "encoded"
    /\ data # <<>>
    /\ LET p == MainPack(encoded_bits)
       IN /\ extra_padding' = p.extra_padding
          /\ padded_bits' = p.padded_bits
          /\ byte_array' = p.byte_array
    /\ pc' = "packed"
    /\ UNCHANGED <<algo, data, encodeVars, bits_to_decode, decodeVars, bitVars, metricVars>>

\* main.py step 5, ber = 0: decode the stripped stream and compare
Verify ==
    /\ pc = "packed"
    /\ LET bits == StripPadding(padded_bits, extra_padding)
           r == CoderDecode(bits)
       IN /\ bits_to_decode' = bits
          /\ raised' = IF r.status = "ok" THEN "none" ELSE r.status
          /\ decoded_data' = r.out
          /\ partial' = r.partial
          /\ decoding_status' = IF r.status # "ok" THEN "Crash"
                                ELSE IF r.out = data THEN "Success" ELSE "Mismatch"
    /\ pc' = "verified"
    /\ UNCHANGED <<rb_status, rb_decoded, algo, data, encodeVars, packVars, bitVars, metricVars>>

\* main.py step 5, ber > 0: apply_noise on the padded stream, then strip
ApplyNoise ==
    /\ pc = "packed"
    /\ \E flips \in SUBSET (1..Len(padded_bits)) :
          /\ Cardinality(flips) <= MaxFlips
          /\ bits_to_decode' = StripPadding(FlipBits(padded_bits, flips), extra_padding)
    /\ pc' = "noisy"
    /\ UNCHANGED <<algo, data, encodeVars, packVars, decodeVars, bitVars, metricVars>>

\* main.py lines 171-177: try decode, except Exception -> "Failed", b""
DecodeNoisy ==
    /\ pc = "noisy"
    /\ LET r == CoderDecode(bits_to_decode)
       IN /\ raised' = IF r.status = "ok" THEN "none" ELSE r.status
          /\ partial' = r.partial
          /\ decoded_data' = IF r.status = "ok" THEN r.out ELSE <<>>
          /\ decoding_status' = IF r.status = "ok" THEN "Success" ELSE "Failed"
    /\ pc' = "done"
    /\ UNCHANGED <<rb_status, rb_decoded, algo, data, encodeVars, packVars, bits_to_decode, bitVars, metricVars>>

\* reverse_codes = {v: k for k, v in codes.items()}: a later entry with the
\* same code replaces an earlier one
InReverse(codebook, buf) == \E i \in 1..Len(codebook) : codebook[i][2] = buf

ReverseGet(codebook, buf) ==
    LET last == CHOOSE i \in 1..Len(codebook) :
                    /\ codebook[i][2] = buf
                    /\ \A j \in 1..Len(codebook) : codebook[j][2] = buf => j <= i
    IN codebook[last][1]

\* read_bin.py step D: grow current_buffer bit by bit, emit on a dictionary hit
RECURSIVE ReadBinLoop(_, _, _, _)
ReadBinLoop(codebook, bit_string, current_buffer, decoded_bytes) ==
    IF bit_string = <<>> THEN decoded_bytes
    ELSE LET buf == Append(current_buffer, Head(bit_string))
         IN IF InReverse(codebook, buf)
            THEN ReadBinLoop(codebook, Tail(bit_string), <<>>,
                             Append(decoded_bytes, ReverseGet(codebook, buf)))
            ELSE ReadBinLoop(codebook, Tail(bit_string), buf, decoded_bytes)

\* read_bin.read_and_decode on the file main.py saved (padding count, codebook,
\* payload), the payload read back with at most MaxFlips damaged bits; an
\* empty payload ends the function before step A
ReadBinDecode ==
    /\ pc = "packed"
    /\ \E flips \in SUBSET (1..Len(padded_bits)) :
          /\ Cardinality(flips) <= MaxFlips
          /\ LET compressed_data == MainPack(FlipBits(padded_bits, flips)).byte_array
                 bit_string == ReadBinUnpack(extra_padding, compressed_data)
             IN IF Len(compressed_data) = 0
                THEN /\ rb_status' = "nodata"
                     /\ rb_decoded' = <<>>
                     /\ UNCHANGED bits_to_decode
                ELSE /\ rb_status' = "decoded"
                     /\ bits_to_decode' = bit_string
                     /\ rb_decoded' = ReadBinLoop(codes, bit_string, <<>>, <<>>)
    /\ pc' = "readbin"
    /\ UNCHANGED <<algo, data, encodeVars, packVars,
                   raised, decoding_status, decoded_data, partial, bitVars, metricVars>>

Next ==
    \/ EncodeHuffman
    \/ EncodeShannon
    \/ DecodeDirect
    \/ Pack
    \/ Verify
    \/ ApplyNoise
    \/ DecodeNoisy
    \/ ReadBinDecode

\* ------------------------------------------------ BitWriter and BitReader
MaxBits == 9

BitStrings(n) == SeqsUpTo({0, 1}, n)

BitInit(streams) ==
    /\ bpc = "open"
    /\ stream \in streams
    /\ written = 0
    /\ buffer = 0
    /\ buffer_len = 0
    /\ file = <<0>>
    /\ packed = [extra_padding |-> 0, padded_bits |-> <<>>, byte_array |-> <<>>]
    /\ unpacked = <<>>

\* the loop of BitWriter.write_bits over bit_string
RECURSIVE WriteLoop(_, _, _, _)
WriteLoop(bit_string, buf, len, f) ==
    IF bit_string = <<>> THEN [buffer |-> buf, buffer_len |-> len, file |-> f]
    ELSE LET b == 2 * buf + Head(bit_string)
         IN IF len + 1 = 8
            THEN WriteLoop(Tail(bit_string), 0, 0, Append(f, b))
            ELSE WriteLoop(Tail(bit_string), b, len + 1, f)

\* BitWriter.write_bits with the next n bits of the stream
WriteBits ==
    /\ bpc = "open"
    /\ \E n \in 0..(Len(stream) - written) :
          LET w == WriteLoop(SubSeq(stream, written + 1, written + n),
                             buffer, buffer_len, file)
          IN /\ buffer' = w.buffer
             /\ buffer_len' = w.buffer_len
             /\ file' = w.file
             /\ written' = written + n
    /\ UNCHANGED <<bpc, stream, packed, unpacked, codecVars, metricVars>>

\* BitWriter.close: the final file content
CloseFile(buf, len, f) ==
    LET padding_count == IF len > 0 THEN 8 - len ELSE 0
        flushed == IF len > 0 THEN Append(f, buf * Pow(2, padding_count)) ELSE f
    IN <<padding_count>> \o Tail(flushed)

Close ==
    /\ bpc = "open"
    /\ file' = CloseFile(buffer, buffer_len, file)
    /\ buffer' = IF buffer_len > 0 THEN buffer * Pow(2, 8 - buffer_len) ELSE buffer
    /\ bpc' = "closed"
    /\ UNCHANGED <<stream, written, buffer_len, packed, unpacked, codecVars, metricVars>>

\* BitReader.__init__ followed by BitReader.read_all_bits on the file content f
ReadAllBits(f) ==
    LET padding_count == IF Len(f) < 1 THEN 0 ELSE f[1]
        content == IF Len(f) < 1 THEN <<>> ELSE Tail(f)
    IN IF content = <<>> THEN <<>>
       ELSE StripPadding(BytesToBits(content), padding_count)

ReadFile ==
    /\ bpc = "closed"
    /\ unpacked' = ReadAllBits(file)
    /\ bpc' = "read"
    /\ UNCHANGED <<stream, written, buffer, buffer_len, file, packed, codecVars, metricVars>>

\* main.py step 4 on the whole stream
PackStream ==
    /\ bpc = "open"
    /\ written = 0
    /\ packed' = MainPack(stream)
    /\ bpc' = "packed"
    /\ UNCHANGED <<stream, written, buffer, buffer_len, file, unpacked, codecVars, metricVars>>

\* read_bin.py steps A and B on what main.py stored
UnpackStream ==
    /\ bpc = "packed"
    /\ unpacked' = ReadBinUnpack(packed.extra_padding, packed.byte_array)
    /\ bpc' = "unpacked"
    /\ UNCHANGED <<stream, written, buffer, buffer_len, file, packed, codecVars, metricVars>>

NextBits ==
    \/ WriteBits
    \/ Close
    \/ ReadFile
    \/ PackStream
    \/ UnpackStream

\* ---------------------------------------------------------------- metrics
MaxMetricLen == 3

MetricBytes == {0, 16, 255}

\* a Python float that is a ratio of two integers
Ratio(n, d) == [num |-> n, den |-> d]

Zero == Ratio(0, 1)

RatioEq(x, y) == x.num * y.den = y.num * x.den

Min(x, y) == IF x < y THEN x ELSE y

MetricInit(seqs) ==
    /\ mpc = "start"
    /\ original \in seqs
    /\ decoded \in seqs
    /\ mse = Zero
    /\ ser = Zero

\* numpy uint8 arithmetic: results are reduced modulo 256
U8(x) == x % 256

\* np.mean((arr_orig - arr_dec) ** 2) on uint8 arrays: the sum of the elements
RECURSIVE SumSqU8(_, _, _)
SumSqU8(a, b, n) ==
    IF n = 0 THEN 0
    ELSE LET d == U8(a[n] - b[n]) IN U8(d * d) + SumSqU8(a, b, n - 1)

calculate_mse(orig, dec) ==
    LET min_len == Min(Len(orig), Len(dec))
    IN IF min_len = 0 THEN Zero
       ELSE Ratio(SumSqU8(orig, dec, min_len), min_len)

RECURSIVE Mismatches(_, _, _)
Mismatches(a, b, n) ==
    IF n = 0 THEN 0
    ELSE (IF a[n] # b[n] THEN 1 ELSE 0) + Mismatches(a, b, n - 1)

calculate_ser_text(orig, dec) ==
    LET min_len == Min(Len(orig), Len(dec))
    IN IF min_len = 0 THEN Zero
       ELSE LET mismatches == Mismatches(orig, dec, min_len)
                len_diff == Abs(Len(orig) - Len(dec))
                total_symbols == Len(orig)
            IN IF total_symbols = 0 THEN Zero
               ELSE Ratio(mismatches + len_diff, total_symbols)

CalcMSE ==
    /\ mpc = "start"
    /\ mse' = calculate_mse(original, decoded)
    /\ mpc' = "mse"
    /\ UNCHANGED <<original, decoded, ser, berVars, codecVars, bitVars>>

CalcSER ==
    /\ mpc = "start"
    /\ ser' = calculate_ser_text(original, decoded)
    /\ mpc' = "ser"
    /\ UNCHANGED <<original, decoded, mse, berVars, codecVars, bitVars>>

NextMetrics ==
    \/ CalcMSE
    \/ CalcSER

\* ---------------------------------------------------------- calculate_ber
MaxBerLen == 3

BerInit(bitseqs) ==
    /\ kpc = "start"
    /\ original_bits \in bitseqs
    /\ noisy_bits \in bitseqs
    /\ ber = [status |-> "none", value |-> Zero]

\* calculate_ber comparing the shared prefix instead of raising
calculate_ber_truncating(x, y) ==
    IF Min(Len(x), Len(y)) = 0 THEN [status |-> "ok", value |-> Zero]
    ELSE [status |-> "ok",
          value |-> Ratio(Mismatches(x, y, Min(Len(x), Len(y))), Min(Len(x), Len(y)))]

\* calculate_ber: raises ValueError or returns a float; zip stops at len(x)
calculate_ber(x, y) ==
    IF Len(x) # Len(y) THEN [status |-> "ValueError", value |-> Zero]
    ELSE IF x = <<>> THEN [status |-> "ok", value |-> Zero]
    ELSE [status |-> "ok", value |-> Ratio(Mismatches(x, y, Len(x)), Len(x))]

CalcBER ==
    /\ kpc = "start"
    /\ ber' = calculate_ber(original_bits, noisy_bits)
    /\ kpc' = "ber"
    /\ UNCHANGED <<original_bits, noisy_bits, mpc, original, decoded, mse, ser,
                   codecVars, bitVars>>

NextBer ==
    \/ CalcBER

\* ------------------------------------------- inputs by frequency profile
MaxSyms == 5

MaxCount == 4

RECURSIVE Repeat(_, _)
Repeat(b, n) == IF n = 0 THEN <<>> ELSE <<b>> \o Repeat(b, n - 1)

\* the input whose i-th distinct byte is SymbolPool[i], occurring counts[i]
\* times, in blocks
RECURSIVE Blocks(_, _)
Blocks(counts, i) ==
    IF i > Len(counts) THEN <<>>
    ELSE Repeat(SymbolPool[i], counts[i]) \o Blocks(counts, i + 1)

ScenarioSkew == Blocks(<<2, 2, 2, 2, 5>>, 1)

ScenarioClassic == Blocks(<<15, 7, 6, 6, 5>>, 1)

FreqInputs ==
    {Blocks(c, 1) : c \in UNION {[1..k -> 1..MaxCount] : k \in 1..MaxSyms}}
        \cup {ScenarioSkew, ScenarioClassic}

MaxArbBits == 5

\* coder.decode(bits, third) on a bit string that need not be an encoding
DecodeBits ==
    /\ pc = "encoded"
    /\ \E bits \in BitStrings(MaxArbBits) :
          LET r == CoderDecode(bits)
          IN /\ bits_to_decode' = bits
             /\ raised' = IF r.status = "ok" THEN "none" ELSE r.status
             /\ decoded_data' = r.out
             /\ partial' = r.partial
    /\ pc' = "arbitrary"
    /\ UNCHANGED <<rb_status, rb_decoded, algo, data, encodeVars, packVars,
                   decoding_status, bitVars, metricVars>>

NextFreq ==
    \/ EncodeHuffman
    \/ EncodeShannon
    \/ DecodeDirect
    \/ DecodeBits

\* --------------------------------------------------------- specifications
Init ==
    /\ CodecInit(Inputs)
    /\ BitInit({<<>>})
    /\ MetricInit({<<>>})
    /\ BerInit({<<>>})

Spec == Init /\ [][Next]_vars

InitBits ==
    /\ CodecInit({<<>>})
    /\ BitInit(BitStrings(MaxBits))
    /\ MetricInit({<<>>})
    /\ BerInit({<<>>})

SpecBits == InitBits /\ [][NextBits]_vars

InitMetrics ==
    /\ CodecInit({<<>>})
    /\ BitInit({<<>>})
    /\ MetricInit(SeqsUpTo(MetricBytes, MaxMetricLen))
    /\ BerInit({<<>>})

SpecMetrics == InitMetrics /\ [][NextMetrics]_vars

InitFreq ==
    /\ CodecInit(FreqInputs)
    /\ BitInit({<<>>})
    /\ MetricInit({<<>>})
    /\ BerInit({<<>>})

SpecFreq == InitFreq /\ [][NextFreq]_vars

InitBer ==
    /\ CodecInit({<<>>})
    /\ BitInit({<<>>})
    /\ MetricInit({<<>>})
    /\ BerInit(BitStrings(MaxBerLen))

SpecBer == InitBer /\ [][NextBer]_vars

\* ----------------------------------------------------------------- claims
Range(s) == {s[i] : i \in 1..Len(s)}

IsPrefix(a, b) == Len(a) <= Len(b) /\ SubSeq(b, 1, Len(a)) = a

AllZero(bits, n) == Len(bits) = n /\ \A i \in 1..Len(bits) : bits[i] = 0

\* C1: Huffman round trip. After decode(encode(d)) with the Huffman coder on a
\* non-empty d, decode returned normally and its result is d.
C1_HuffmanRoundTrip ==
    (pc = "decoded" /\ algo = "huffman" /\ data # <<>>)
        => (raised = "none" /\ decoded_data = data)

\* C2: Shannon-Fano round trip. After decode(encode(d)) with the Shannon-Fano
\* coder on a non-empty d (one distinct byte value included), decode returned
\* normally and its result is d.
C2_ShannonRoundTrip ==
    (pc = "decoded" /\ algo = "shannon" /\ data # <<>>)
        => (raised = "none" /\ decoded_data = data)

C2_Witness ==
    /\ pc = "decoded"
    /\ algo = "shannon"
    /\ Cardinality(Range(data)) >= 3
    /\ Len(data) > Cardinality(Range(data))
    /\ decoded_data = data

\* C3: single-symbol input. For n repetitions of one byte s, either encoder
\* returns the codebook {s: "0"} and a bit stream of exactly n zero bits.
C3_SingleSymbolCode ==
    (pc = "encoded" /\ data # <<>> /\ Cardinality(Range(data)) = 1)
        => (/\ codes = << <<data[1], <<0>>>> >>
            /\ AllZero(encoded_bits, Len(data)))

\* C4: prefix-free codebooks. In the codebook returned by either encoder no
\* code of one symbol is a prefix of (or equal to) the code of another symbol.
C4_PrefixFree ==
    pc # "start" =>
        \A i, j \in 1..Len(codes) :
            i # j => (codes[i][1] # codes[j][1] /\ ~IsPrefix(codes[i][2], codes[j][2]))

C4_Witness ==
    /\ pc = "encoded"
    /\ algo = "huffman"
    /\ Len(codes) >= 3
    /\ \E i, j \in 1..Len(codes) : Len(codes[i][2]) < Len(codes[j][2])

\* C5: decode fault reporting. When decoding the noisy stream followed a bit
\* to an absent child, the outcome handed back still carries the symbols that
\* were decoded before the fault.
C5_FaultKeepsPrefix ==
    (pc = "done" /\ raised # "none")
        => (decoding_status = "Failed" /\ decoded_data = partial)

CeilDiv8(n) == (n + 7) \div 8

\* C6: pack/unpack round trip. The packer of main.py stores a padding count in
\* 0..7 equal to (8 - len % 8) % 8 and len(payload)*8 - padding = len, and the
\* unpacker of read_bin.py gives the stream back; a BitWriter file written by
\* any sequence of write_bits calls and closed has the same shape, and
\* BitReader.read_all_bits gives back the bits written.
C6_PackRoundTrip ==
    /\ bpc \in {"packed", "unpacked"} =>
          /\ packed.extra_padding \in 0..7
          /\ packed.extra_padding = (8 - (Len(stream) % 8)) % 8
          /\ Len(packed.byte_array) * 8 - packed.extra_padding = Len(stream)
          /\ BytesToBits(packed.byte_array) = stream \o Zeros(packed.extra_padding)
    /\ bpc = "unpacked" => unpacked = stream
    /\ bpc \in {"closed", "read"} =>
          /\ file[1] \in 0..7
          /\ (Len(file) - 1) * 8 - file[1] = written
    /\ bpc = "read" => unpacked = SubSeq(stream, 1, written)

C6_Witness ==
    /\ bpc = "read"
    /\ written = 9
    /\ file[1] = 7
    /\ Len(file) = 3
    /\ unpacked = stream
    /\ \E i \in 1..Len(stream) : stream[i] = 1

\* C7: calculate_mse is the mean over the shared prefix of the squared
\* differences of the byte values taken as ordinary integers, 0.0 for an
\* empty shared prefix; mse([0,0,0], [255,255,255]) = 65025.
RECURSIVE SumSq(_, _, _)
SumSq(a, b, n) ==
    IF n = 0 THEN 0
    ELSE (a[n] - b[n]) * (a[n] - b[n]) + SumSq(a, b, n - 1)

C7_MseIsMeanSquare ==
    mpc = "mse" =>
        LET n == Min(Len(original), Len(decoded))
        IN IF n = 0 THEN RatioEq(mse, Zero)
           ELSE RatioEq(mse, Ratio(SumSq(original, decoded, n), n))

\* C8: calculate_ser_text is (mismatches in the shared prefix + |len(a) -
\* len(b)|) / len(a) whenever len(a) > 0, an empty b included, and 0.0 when
\* len(a) = 0.
C8_SerFormula ==
    mpc = "ser" =>
        LET n == Min(Len(original), Len(decoded))
        IN IF Len(original) = 0 THEN RatioEq(ser, Zero)
           ELSE RatioEq(ser, Ratio(Mismatches(original, decoded, n)
                                   + Abs(Len(original) - Len(decoded)),
                                   Len(original)))

\* C9: two-symbol Huffman. For n bytes with exactly two distinct values the
\* two codes are single bits of opposite value, the stream has n bits, and
\* packing gives ceil(n/8) bytes with padding (8 - n % 8) % 8; for
\* b"AAAAAAAAB" that is 9 bits, 2 bytes and padding 7.
C9_TwoSymbolHuffman ==
    (algo = "huffman" /\ Cardinality(Range(data)) = 2 /\ pc # "start") =>
        /\ DictKeys(codes) = Range(data)
        /\ Len(codes) = 2
        /\ Len(codes[1][2]) = 1
        /\ Len(codes[2][2]) = 1
        /\ codes[1][2] # codes[2][2]
        /\ Len(encoded_bits) = Len(data)
        /\ pc \in {"packed", "verified", "noisy", "done"} =>
              /\ Len(byte_array) = CeilDiv8(Len(data))
              /\ extra_padding = (8 - (Len(data) % 8)) % 8
              /\ data = ScenarioAAB =>
                    (Len(encoded_bits) = 9 /\ Len(byte_array) = 2 /\ extra_padding = 7)

C9_Witness ==
    /\ pc = "packed"
    /\ algo = "huffman"
    /\ data = ScenarioAAB
    /\ Len(encoded_bits) = 9
    /\ Len(byte_array) = 2
    /\ extra_padding = 7

\* C10 as stated: for the empty input both encoders return an empty bit
\* stream, an empty codebook and None as the third value, and decode of the
\* empty stream returns the empty byte sequence.
C10_EmptyInputNullTree ==
    (data = <<>> /\ pc \in {"encoded", "decoded"}) =>
        /\ encoded_bits = <<>>
        /\ codes = <<>>
        /\ third = "None"
        /\ pc = "decoded" => (raised = "none" /\ decoded_data = <<>>)

\* C10 amended: for the empty input both encoders return an empty bit stream
\* and an empty codebook; the third value is None for Huffman and the (empty)
\* codebook dict for Shannon-Fano; decode of the empty stream with that value
\* returns the empty byte sequence without raising.
C10_EmptyInput ==
    (data = <<>> /\ pc \in {"encoded", "decoded"}) =>
        /\ encoded_bits = <<>>
        /\ codes = <<>>
        /\ algo = "huffman" => (third = "None" /\ root = NoneRef)
        /\ algo = "shannon" => third = "dict"
        /\ pc = "decoded" => (raised = "none" /\ decoded_data = <<>>)

C10_Witness ==
    /\ data = <<>>
    /\ pc = "decoded"
    /\ algo = "shannon"
    /\ third = "dict"
    /\ codes = <<>>
    /\ decoded_data = <<>>

\* C11: calculate_ber raises the length-mismatch error whenever the two
\* strings differ in length, and otherwise returns the number of differing
\* positions divided by the length, 0.0 for two empty strings.
C11_BerLengthMismatch ==
    kpc = "ber" =>
        IF Len(original_bits) # Len(noisy_bits)
        THEN ber.status = "ValueError"
        ELSE /\ ber.status = "ok"
             /\ IF Len(original_bits) = 0 THEN RatioEq(ber.value, Zero)
                ELSE RatioEq(ber.value,
                       Ratio(Cardinality({i \in 1..Len(original_bits) :
                                            original_bits[i] # noisy_bits[i]}),
                             Len(original_bits)))

C11_Witness ==
    /\ kpc = "ber"
    /\ Len(original_bits) = 3
    /\ Len(noisy_bits) = 2
    /\ SubSeq(original_bits, 1, 2) = noisy_bits
    /\ ber.status = "ValueError"

\* the order of the tie-break rule: smaller weight first; at equal weight a
\* leaf before an internal node; between two leaves the smaller symbol first
Before(a, b) ==
    \/ nodes[a].freq < nodes[b].freq
    \/ /\ nodes[a].freq = nodes[b].freq
       /\ \/ nodes[a].char # NoneChar /\ nodes[b].char = NoneChar
          \/ /\ nodes[a].char # NoneChar
             /\ nodes[b].char # NoneChar
             /\ nodes[a].char < nodes[b].char

NumLeaves == (Len(nodes) + 1) \div 2

\* C12: Huffman tie-break order. At every pop of the tree construction no
\* queued node comes before the popped one in that order, and the k-th merge
\* joins the nodes of pops 2k-1 and 2k as left and right child.
C12_PopsAreMinimal ==
    (algo = "huffman" /\ pc # "start") =>
        /\ \A k \in 1..Len(pops) :
              /\ pops[k].item \in Range(pops[k].queue)
              /\ \A q \in Range(pops[k].queue) : ~Before(q, pops[k].item)
        /\ Len(pops) = 2 * (Len(nodes) - NumLeaves)
        /\ \A m \in 1..(Len(nodes) - NumLeaves) :
              /\ nodes[NumLeaves + m].left = pops[2 * m - 1].item
              /\ nodes[NumLeaves + m].right = pops[2 * m].item

\* a pop that had an internal node and a leaf of equal weight in the queue
C12_Witness ==
    /\ algo = "huffman"
    /\ pc = "encoded"
    /\ \E k \in 1..Len(pops) :
          /\ nodes[pops[k].item].char # NoneChar
          /\ \E q \in Range(pops[k].queue) :
                /\ nodes[q].char = NoneChar
                /\ nodes[q].freq = nodes[pops[k].item].freq
          /\ \E q1, q2 \in Range(pops[k].queue) :
                /\ q1 # q2
                /\ nodes[q1].char = NoneChar
                /\ nodes[q2].char = NoneChar

\* |sum(left) - sum(right)| when the list is cut after 0-based index i
CutDiff(symbols, i) ==
    Abs(SumFreq(SubSeq(symbols, 1, i + 1))
        - SumFreq(SubSeq(symbols, i + 2, Len(symbols))))

\* C13: Shannon-Fano split. Every call on k >= 2 symbols has them in
\* descending frequency and cuts at the smallest index in 0..k-2 whose
\* |sum(left) - sum(right)| is minimal over all k-1 cuts; the symbols of the
\* left part get the prefix followed by 0, those of the right part by 1.
C13_SplitIsGlobalMin ==
    (algo = "shannon" /\ pc # "start") =>
        \A n \in 1..Len(splits) :
            LET syms == splits[n].symbols
                k == Len(syms)
                idx == splits[n].split_idx
            IN /\ k >= 2
               /\ \A i \in 1..(k - 1) : syms[i][2] >= syms[i + 1][2]
               /\ idx \in 0..(k - 2)
               /\ \A j \in 0..(k - 2) :
                     /\ CutDiff(syms, idx) <= CutDiff(syms, j)
                     /\ CutDiff(syms, j) = CutDiff(syms, idx) => idx <= j
               /\ \A i \in 1..k :
                     IsPrefix(Append(splits[n].current_code,
                                     IF i <= idx + 1 THEN 0 ELSE 1),
                              DictGet(codes, syms[i][1]))

\* a split whose differences first fall and then rise, and one with a tie
C13_Witness ==
    /\ algo = "shannon"
    /\ pc = "encoded"
    /\ \E n \in 1..Len(splits) :
          LET syms == splits[n].symbols
              idx == splits[n].split_idx
          IN /\ idx >= 1
             /\ idx <= Len(syms) - 3
             /\ CutDiff(syms, idx - 1) > CutDiff(syms, idx)
             /\ CutDiff(syms, idx + 1) > CutDiff(syms, idx)
    /\ \E n \in 1..Len(splits) :
          \E j \in 0..(Len(splits[n].symbols) - 2) :
              /\ j # splits[n].split_idx
              /\ CutDiff(splits[n].symbols, j)
                    = CutDiff(splits[n].symbols, splits[n].split_idx)

\* C14: Huffman against Shannon-Fano. For an input with at least two distinct
\* byte values the bit stream of HuffmanCoder.encode is no longer than the
\* bit stream of ShannonFanoCoder.encode for the same input.
C14_HuffmanNotLonger ==
    (pc = "encoded" /\ Cardinality(Range(data)) >= 2) =>
        IF algo = "huffman"
        THEN Len(encoded_bits) <= Len(ShannonEncode(data).bits)
        ELSE Len(HuffmanEncode(data).bits) <= Len(encoded_bits)

C14_Witness ==
    /\ pc = "encoded"
    /\ algo = "huffman"
    /\ data = ScenarioSkew
    /\ Len(encoded_bits) = 29
    /\ Len(ShannonEncode(data).bits) = 30

\* C15: dictionary decode equals tree walk. When read_bin.py has decoded a
\* bit string with the codebook of either encoder, the tree walk of
\* ShannonFanoCoder.decode on the same bit string and codebook returns
\* normally with the same bytes (the dictionary loop itself never faults).
C15_DictEqualsTreeWalk ==
    (pc = "readbin" /\ rb_status = "decoded") =>
        LET t == ShannonDecode(bits_to_decode, codes)
        IN t.status = "ok" /\ rb_decoded = t.out

\* the tree a decode call walks: the Huffman tree itself, or the tree that
\* ShannonFanoCoder.decode rebuilds from the codebook
DecodeTree == IF algo = "huffman" THEN nodes ELSE RebuildTree(codes)

FullTree(tree) ==
    \A i \in 1..Len(tree) :
        tree[i].char = NoneChar =>
            tree[i].left # NoneRef /\ tree[i].right # NoneRef

\* what is left of the decoded bit string after the codewords of the output
Leftover ==
    SubSeq(bits_to_decode, Len(JoinCodes(codes, decoded_data)) + 1,
           Len(bits_to_decode))

\* C16: for an input with at least two distinct byte values every internal
\* node of the decode tree (Huffman tree, rebuilt Shannon-Fano tree) has both
\* children; decode of any bit string returns without a fault, its output is
\* the longest leading run of complete codewords (their codes concatenated
\* are a prefix of the bit string and no codeword starts the leftover), and
\* the leftover bits of an incomplete codeword are dropped silently.
C16_FullTreeDecode ==
    (pc \in {"encoded", "decoded", "arbitrary"} /\ Cardinality(Range(data)) >= 2) =>
        /\ FullTree(DecodeTree)
        /\ pc \in {"decoded", "arbitrary"} =>
              /\ raised = "none"
              /\ IsPrefix(JoinCodes(codes, decoded_data), bits_to_decode)
              /\ \A i \in 1..Len(codes) : ~IsPrefix(codes[i][2], Leftover)
              /\ \E i \in 1..Len(codes) : IsPrefix(Leftover, codes[i][2])

C16_Witness ==
    /\ pc = "arbitrary"
    /\ algo = "shannon"
    /\ Cardinality(Range(data)) >= 3
    /\ raised = "none"
    /\ Len(decoded_data) >= 2
    /\ Leftover # <<>>
    /\ bits_to_decode # encoded_bits

====
